---- MODULE Spec2Model ----
(***************************************************************************)
(* github-trend-rss: the run of main() over one source (direct options) or *)
(* over the sources of a configuration file: cache lookup, trending fetch, *)
(* README enrichment (p-limit gate or sequential loop, branch fallback,    *)
(* retry with backoff), feed rendering and the output write.               *)
(***************************************************************************)
EXTENDS Integers, Sequences, FiniteSets, TLC

\* ------------------------------------------------------------------ bounds
\* longest trending listing of a run with direct options
MaxRepos == 2
\* longest trending listing of a run over the sources of a configuration file
MaxReposConfig == 1
\* last instant the clock can show
MaxTime == 3

\* ------------------------------------------------------ program constants
MaxRetries == 3
DefaultCacheExpiry == 3600000
DefaultMaxReadmeLength == 20000
DefaultMaxParallelRequests == 5
BackoffBaseMs == 1000

DefaultLanguage == "python"
DefaultTimeRange == "daily"
DefaultOutputPath == "./github-trending.xml"
DefaultCacheDir == "./.cache"
DefaultBaseUrl == "https://github.com/trending"

\* variant: the fallback text left blank
ReadmeNotAvailableBlank == ""
ReadmeNotAvailable ==
  "README not available. Either the repository does not have a README or it could not be accessed."
ReadmeFetchError == "README could not be fetched due to an error."
TruncationNotice ==
  "\n\n... [README content truncated due to size. Visit the repository for the complete README] ..."

\* ------------------------------------------------------------ small helpers
Min(a, b) == IF a < b THEN a ELSE b
Max(a, b) == IF a > b THEN a ELSE b

RECURSIVE Pow2(_)
Pow2(n) == IF n <= 0 THEN 1 ELSE 2 * Pow2(n - 1)

\* String.prototype.substring(0, n): n is clamped to [0, length]
Substring0(s, n) == SubSeq(s, 1, Max(0, Min(n, Len(s))))

AlphaNum == {"a","b","c","d","e","f","g","h","i","j","k","l","m","n","o","p","q",
             "r","s","t","u","v","w","x","y","z",
             "A","B","C","D","E","F","G","H","I","J","K","L","M","N","O","P","Q",
             "R","S","T","U","V","W","X","Y","Z",
             "0","1","2","3","4","5","6","7","8","9"}

\* baseUrl.replace(/[^a-zA-Z0-9]/g, '_')
RECURSIVE SanitizeUrl(_)
SanitizeUrl(s) ==
  IF Len(s) = 0 THEN ""
  ELSE (IF SubSeq(s, 1, 1) \in AlphaNum THEN SubSeq(s, 1, 1) ELSE "_")
         \o SanitizeUrl(SubSeq(s, 2, Len(s)))

\* generateCacheKey(language, timeRange, baseUrl?); an absent baseUrl is ""
generateCacheKey(language, timeRange, baseUrl) ==
  IF baseUrl # ""
    THEN "trending_" \o language \o "_" \o timeRange \o "_" \o SanitizeUrl(baseUrl)
    ELSE "trending_" \o language \o "_" \o timeRange

\* path.join(cacheDir, `${key}.json`)
CachePath(cacheDir, key) == cacheDir \o "/" \o key \o ".json"

\* variant: a text of exactly the maximum length is cut too
summarizeReadmeStrict(readme, maxLength) ==
  IF Len(readme) < maxLength
    THEN readme
    ELSE Substring0(readme, maxLength) \o TruncationNotice

\* summarizeReadme(readme, maxLength)
summarizeReadme(readme, maxLength) ==
  IF Len(readme) <= maxLength
    THEN readme
    ELSE Substring0(readme, maxLength) \o TruncationNotice

\* ------------------------------------------------- options and configuration
\* An options object is a function from the keys it has to their values; a key
\* that is absent reads as undefined.
Has(o, k) == k \in DOMAIN o
\* options.k || d, for strings and numbers; options.k !== undefined ? options.k : d
StrOr(o, k, d) == IF Has(o, k) /\ o[k] # "" THEN o[k] ELSE d
NumOr(o, k, d) == IF Has(o, k) /\ o[k] # 0 THEN o[k] ELSE d
DefinedOr(o, k, d) == IF Has(o, k) THEN o[k] ELSE d

\* { ...a, ...b }: the keys of b override those of a
Spread(a, b) == [k \in DOMAIN a \cup DOMAIN b |-> IF k \in DOMAIN b THEN b[k] ELSE a[k]]

SourceKeys == {"language", "timeRange", "outputPath", "baseUrl"}

\* the sourceOptions literal of main: the source's fields, then the global
\* block, then the caller's options
SourceOptionsOf(source, global, callerOptions) ==
  Spread(Spread([k \in SourceKeys \cap DOMAIN source |-> source[k]], global),
         callerOptions)

\* the config literal of processSource
EffectiveConfig(o) ==
  [language            |-> StrOr(o, "language", DefaultLanguage),
   timeRange           |-> StrOr(o, "timeRange", DefaultTimeRange),
   outputPath          |-> StrOr(o, "outputPath", DefaultOutputPath),
   cacheDir            |-> StrOr(o, "cacheDir", DefaultCacheDir),
   cacheExpiry         |-> NumOr(o, "cacheExpiry", DefaultCacheExpiry),
   useCache            |-> DefinedOr(o, "useCache", TRUE),
   maxReadmeLength     |-> NumOr(o, "maxReadmeLength", DefaultMaxReadmeLength),
   parallel            |-> DefinedOr(o, "parallel", TRUE),
   maxParallelRequests |-> NumOr(o, "maxParallelRequests", DefaultMaxParallelRequests)]

EffectiveBaseUrl(o) == StrOr(o, "baseUrl", DefaultBaseUrl)

DefaultGlobal ==
  [cacheDir |-> "./.cache", cacheExpiry |-> 3600000, useCache |-> TRUE,
   maxReadmeLength |-> 20000, parallel |-> TRUE, maxParallelRequests |-> 5]

\* variant: outputPath is not validated
MissingFieldBeforeOutputPath(source) ==
  IF ~Has(source, "name") \/ source["name"] = "" THEN "name"
  ELSE IF ~Has(source, "language") THEN "language"
  ELSE IF ~Has(source, "timeRange") \/ source["timeRange"] = "" THEN "timeRange"
  ELSE ""

\* the first required field a source lacks, "" when it lacks none
MissingField(source) ==
  IF ~Has(source, "name") \/ source["name"] = "" THEN "name"
  ELSE IF ~Has(source, "language") THEN "language"
  ELSE IF ~Has(source, "timeRange") \/ source["timeRange"] = "" THEN "timeRange"
  ELSE IF ~Has(source, "outputPath") \/ source["outputPath"] = "" THEN "outputPath"
  ELSE ""

\* variant: a document without a global block is rejected
loadConfigGlobalRequired(file) ==
  LET doc == file.doc
      srcs == IF Has(doc, "sources") THEN doc["sources"] ELSE <<>>
      bad == {i \in 1..Len(srcs) : MissingField(srcs[i]) # ""}
  IN IF ~file.exists \/ ~Has(doc, "global") \/ Len(srcs) = 0 \/ bad # {}
       THEN [ok |-> FALSE, global |-> DefaultGlobal, sources |-> <<>>]
       ELSE [ok |-> TRUE, global |-> doc["global"], sources |-> srcs]

\* loadConfig(configPath): file is [exists, doc]; doc has the keys the JSON
\* document has. The result is [ok, global, sources].
loadConfig(file) ==
  LET doc == file.doc
      srcs == IF Has(doc, "sources") THEN doc["sources"] ELSE <<>>
      bad == {i \in 1..Len(srcs) : MissingField(srcs[i]) # ""}
  IN IF ~file.exists \/ Len(srcs) = 0 \/ bad # {}
       THEN [ok |-> FALSE, global |-> DefaultGlobal, sources |-> <<>>]
       ELSE [ok |-> TRUE,
             global |-> IF Has(doc, "global") THEN doc["global"] ELSE DefaultGlobal,
             sources |-> srcs]

\* ------------------------------------------------------------ trending page
\* The page is the sequence of href attributes of its article.Box-row blocks,
\* "" for a block without the h2 link.
RepoHref(i) == "/o/r" \o ToString(i)

\* variant: the readme of a parsed record starts as its name
RECURSIVE parseTrendingReposNamed(_)
parseTrendingReposNamed(page) ==
  IF page = <<>> THEN <<>>
  ELSE LET href == Head(page)
           rest == parseTrendingReposNamed(Tail(page))
       IN IF href = "" THEN rest
          ELSE <<[name |-> SubSeq(href, 2, Len(href)),
                  url |-> "https://github.com" \o href,
                  description |-> "",
                  readme |-> SubSeq(href, 2, Len(href))]>> \o rest
\* parseTrendingRepos(html): blocks without a link are skipped
RECURSIVE parseTrendingRepos(_)
parseTrendingRepos(page) ==
  IF page = <<>> THEN <<>>
  ELSE LET href == Head(page)
           rest == parseTrendingRepos(Tail(page))
       IN IF href = "" THEN rest
          ELSE <<[name |-> SubSeq(href, 2, Len(href)),
                  url |-> "https://github.com" \o href,
                  description |-> "",
                  readme |-> ""]>> \o rest

\* encodeURIComponent on the characters languages are written with
EscapeChar(c) ==
  IF c \in AlphaNum \cup {"-", "_", "."} THEN c
  ELSE IF c = "+" THEN "%2B"
  ELSE IF c = "#" THEN "%23"
  ELSE IF c = " " THEN "%20"
  ELSE "%3F"

RECURSIVE encodeURIComponent(_)
encodeURIComponent(s) ==
  IF Len(s) = 0 THEN ""
  ELSE EscapeChar(SubSeq(s, 1, 1)) \o encodeURIComponent(SubSeq(s, 2, Len(s)))

\* the url fetchGitHubTrending requests
TrendingUrl(timeRange, language, baseUrl) ==
  baseUrl
    \o (IF language # "" THEN "/" \o encodeURIComponent(language) ELSE "")
    \o (IF timeRange \in {"daily", "weekly", "monthly"} THEN "?since=" \o timeRange ELSE "")

\* -------------------------------------------------------------- cache store
\* JSON.stringify of the record array: each record becomes its list of
\* key/value pairs, in property order
JsonOfRepo(r) ==
  <<<<"name", r.name>>, <<"url", r.url>>, <<"description", r.description>>,
    <<"readme", r.readme>>>>
JsonStringify(data) == [i \in 1..Len(data) |-> JsonOfRepo(data[i])]

\* JSON.parse of such a document
FieldOf(pairs, k) == (CHOOSE p \in {pairs[j] : j \in 1..Len(pairs)} : p[1] = k)[2]
RepoOfJson(pairs) ==
  [name |-> FieldOf(pairs, "name"), url |-> FieldOf(pairs, "url"),
   description |-> FieldOf(pairs, "description"), readme |-> FieldOf(pairs, "readme")]
JsonParse(doc) == [i \in 1..Len(doc) |-> RepoOfJson(doc[i])]

\* variant: an entry as old as the expiry counts as expired
CacheExpiredAtLimit(t, timestamp, maxAge) == t - timestamp >= maxAge
\* Date.now() - cache.timestamp > maxAge
CacheExpired(t, timestamp, maxAge) == t - timestamp > maxAge

\* variant: the records are added to the ones the file already holds
saveToCacheMerged(fs, key, data, cacheDir, t, writable) ==
  IF writable
    THEN LET path == CachePath(cacheDir, key)
             kept == IF path \in DOMAIN fs /\ fs[path].valid THEN fs[path].data ELSE <<>>
         IN [p \in DOMAIN fs \cup {path} |->
               IF p = path
                 THEN [valid |-> TRUE, timestamp |-> t, isArray |-> TRUE,
                       data |-> kept \o JsonStringify(data)]
                 ELSE fs[p]]
    ELSE fs
\* saveToCache(key, data, cacheDir) at instant t: the files after the call;
\* a failed write (writable = FALSE) is swallowed
saveToCache(fs, key, data, cacheDir, t, writable) ==
  IF writable
    THEN LET path == CachePath(cacheDir, key)
         IN [p \in DOMAIN fs \cup {path} |->
               IF p = path
                 THEN [valid |-> TRUE, timestamp |-> t, isArray |-> TRUE,
                       data |-> JsonStringify(data)]
                 ELSE fs[p]]
    ELSE fs

\* variant: an entry holding no records read as a miss
loadFromCacheNonEmpty(fs, key, maxAge, cacheDir, t) ==
  LET path == CachePath(cacheDir, key)
      miss == [hit |-> FALSE, isArray |-> TRUE, data |-> <<>>]
  IN IF path \notin DOMAIN fs THEN miss
     ELSE IF ~fs[path].valid THEN miss
     ELSE IF CacheExpired(t, fs[path].timestamp, maxAge) THEN miss
     ELSE IF fs[path].data = <<>> THEN miss
     ELSE [hit |-> TRUE, isArray |-> fs[path].isArray, data |-> JsonParse(fs[path].data)]

\* loadFromCache(key, maxAge, cacheDir) at instant t: [hit, isArray, data]; a
\* missing, unparsable or expired file gives null (hit is the truthiness of the
\* value returned). cache.data is returned as parsed: an entry whose data is a
\* JSON object comes back as that object (isArray FALSE), which is truthy
loadFromCache(fs, key, maxAge, cacheDir, t) ==
  LET path == CachePath(cacheDir, key)
      miss == [hit |-> FALSE, isArray |-> TRUE, data |-> <<>>]
  IN IF path \notin DOMAIN fs THEN miss
     ELSE IF ~fs[path].valid THEN miss
     ELSE IF CacheExpired(t, fs[path].timestamp, maxAge) THEN miss
     ELSE [hit |-> TRUE, isArray |-> fs[path].isArray, data |-> JsonParse(fs[path].data)]

\* path.dirname(outputPath)
RECURSIVE LastSlash(_, _)
LastSlash(s, i) ==
  IF i = 0 THEN 0 ELSE IF SubSeq(s, i, i) = "/" THEN i ELSE LastSlash(s, i - 1)
Dirname(path) ==
  LET i == LastSlash(path, Len(path))
  IN IF i = 0 THEN "." ELSE IF i = 1 THEN "/" ELSE SubSeq(path, 1, i - 1)

\* generateRSSFeed(repos, ...).rss2(): one item per record, in order; the
\* README section is present only for a non-empty readme
FeedItem(r) == [title |-> r.name, link |-> r.url, hasReadme |-> r.readme # ""]
\* variant: a feed without records gets an item saying so
generateRSSFeedNotice(rs) ==
  IF rs = <<>>
    THEN <<[title |-> "No trending repositories", link |-> DefaultBaseUrl,
            hasReadme |-> FALSE]>>
    ELSE [i \in 1..Len(rs) |-> FeedItem(rs[i])]
generateRSSFeed(rs) == [i \in 1..Len(rs) |-> FeedItem(rs[i])]

\* ------------------------------------------------------------------- inputs
PageOf(n) == [i \in 1..n |-> RepoHref(i)]
\* the pages of at most n repositories, one of them with a block without link
PagesUpTo(n) == {PageOf(m) : m \in 0..n} \cup {<<"">> \o PageOf(1)}

\* the README.md the raw-content host serves for a repository: empty, shorter
\* than every configured maximum, or longer than the smallest one
ReadmeKinds == {"empty", "short", "long"}
ReadmeBody(name, kind) ==
  IF kind = "empty" THEN ""
  ELSE IF kind = "short" THEN "# " \o name
  ELSE "# " \o name \o " - installation and usage"

SourcePython ==
  [name |-> "python", language |-> "python", timeRange |-> "daily",
   outputPath |-> "rss/python-daily.xml"]
SourceAll ==
  [name |-> "all", language |-> "", timeRange |-> "weekly",
   outputPath |-> "rss/all-weekly.xml"]
SourceMirror ==
  [name |-> "mirror", language |-> "python", timeRange |-> "daily",
   outputPath |-> "out/mirror.xml"]

\* settings that vary the enrichment: mode, limit and README cap
EnrichSettings ==
  {[cacheDir |-> DefaultCacheDir, cacheExpiry |-> 2, useCache |-> TRUE,
    maxReadmeLength |-> m, parallel |-> p, maxParallelRequests |-> k] :
     m \in {10, 20000}, p \in BOOLEAN, k \in {1, 2, -1}}
\* settings that vary the cache policy; an expiry of 0 is what --cache-expiry 0
\* gives
CacheSettings ==
  {[cacheDir |-> DefaultCacheDir, cacheExpiry |-> e, useCache |-> u,
    maxReadmeLength |-> 20000, parallel |-> TRUE, maxParallelRequests |-> 2] :
     e \in {0, 1, 2}, u \in BOOLEAN}
Settings == EnrichSettings \cup CacheSettings

\* the global blocks of the configuration files
GlobalBase ==
  [cacheDir |-> DefaultCacheDir, cacheExpiry |-> 2, useCache |-> TRUE,
   maxReadmeLength |-> 20000, parallel |-> TRUE, maxParallelRequests |-> 1]
GlobalBlocks ==
  {GlobalBase,
   [GlobalBase EXCEPT !.parallel = FALSE],
   [GlobalBase EXCEPT !.maxParallelRequests = -1],
   [GlobalBase EXCEPT !.useCache = FALSE]}

\* source entries that lack one required field
BrokenSources ==
  {[language |-> "go", timeRange |-> "daily", outputPath |-> "rss/go.xml"],
   [name |-> "broken", timeRange |-> "daily", outputPath |-> "rss/go.xml"],
   [name |-> "broken", language |-> "go", outputPath |-> "rss/go.xml"],
   [name |-> "broken", language |-> "go", timeRange |-> "daily"]}

ConfigFiles ==
  {[exists |-> TRUE,
    doc |-> [global |-> g, sources |-> <<SourcePython, SourceAll, SourceMirror>>]] :
      g \in GlobalBlocks}
  \cup {[exists |-> TRUE, doc |-> [sources |-> <<SourcePython>>]],
        [exists |-> TRUE, doc |-> [sources |-> <<>>]],
        [exists |-> TRUE, doc |-> [global |-> GlobalBase]],
        [exists |-> FALSE, doc |-> [sources |-> <<>>]]}
  \cup {[exists |-> TRUE, doc |-> [sources |-> <<SourcePython, b>>]] : b \in BrokenSources}

NoConfigFile == [exists |-> FALSE, doc |-> [sources |-> <<>>]]

\* what the command line passes to main without --config
DirectOptions ==
  {Spread([language |-> "python", timeRange |-> "daily",
           outputPath |-> DefaultOutputPath], g) : g \in Settings}

\* the cache directory as an earlier run may have left it
PythonKeyPath ==
  CachePath(DefaultCacheDir, generateCacheKey("python", "daily", DefaultBaseUrl))
\* an entry that is no JSON, and one that is JSON with an object as its data:
\* {"timestamp": 0, "data": {}}
CorruptEntry == [valid |-> FALSE, timestamp |-> 0, isArray |-> FALSE, data |-> <<>>]
ObjectEntry == [valid |-> TRUE, timestamp |-> 0, isArray |-> FALSE, data |-> <<>>]
InitialCaches ==
  {<<>>}
  \cup {[p \in {PythonKeyPath} |->
           [valid |-> TRUE, timestamp |-> 0, isArray |-> TRUE,
            data |-> JsonStringify(parseTrendingRepos(PageOf(n)))]] : n \in {0, 1}}
  \cup {[p \in {PythonKeyPath} |-> e] : e \in {CorruptEntry, ObjectEntry}}

\* -------------------------------------------------------------------- state
VARIABLES
  callerOptions,  \* the options main is called with
  configFile,     \* the configuration file at options.configPath
  pc,             \* where main stands
  srcIdx,         \* index of the source being processed
  stage,          \* stage of every source
  results,        \* the results array of main
  repos,          \* the record array of the source being processed
  reposIsArray,   \* FALSE when the value held as repos is no array
  task,           \* per record: progress of its fetchReadme call
  queue,          \* p-limit: indices waiting for a slot
  activeCount,    \* p-limit: tasks started and not resolved
  owner,          \* the source whose records the tasks work on
  feed,           \* the rendered feed awaiting its write
  cacheFiles,     \* files of the cache directory
  outFiles,       \* output files
  dirs,           \* directories that exist
  now,            \* last value Date.now() gave
  readmeKind,     \* which README.md the raw-content host serves
  maxListing,     \* longest listing the trending page shows
  probe,          \* a direct call of a function: its arguments and result
  ops             \* per source: the operations it has performed, by kind, with
                  \* the cache key it looked up and the url it requested

vars == <<callerOptions, configFile, pc, srcIdx, stage, results, repos, reposIsArray, task,
          queue, activeCount, owner, feed, cacheFiles, outFiles, dirs, now,
          readmeKind, maxListing, probe, ops>>

MultiMode == Has(callerOptions, "configPath")
Loaded == loadConfig(configFile)
NumSources == IF MultiMode THEN Len(Loaded.sources) ELSE 1

\* the options processSource gets for source s
OptionsFor(s) ==
  IF MultiMode
    THEN SourceOptionsOf(Loaded.sources[s], Loaded.global, callerOptions)
    ELSE callerOptions
Config(s) == EffectiveConfig(OptionsFor(s))
BaseUrl(s) == EffectiveBaseUrl(OptionsFor(s))
CacheKey(s) == generateCacheKey(Config(s).language, Config(s).timeRange, BaseUrl(s))

FinalStages == {"DONE", "FAILED"}

NoOps == [cacheRead |-> 0, trendingFetch |-> 0, cacheSave |-> 0, readmeFetch |-> 0,
          outputWrite |-> 0, key |-> "", url |-> ""]

\* ------------------------------------------------------- README fetch tasks
\* A task is one call of the function given to limit() (or one turn of the
\* sequential loop): st is queued, fetching (a request is in flight), backoff
\* (the retry timer runs) or done. sentMain and sentMaster count the requests
\* made so far, via and text are what fetchReadme returned.
FreshTask ==
  [st |-> "queued", branch |-> "main", retries |-> 0, delay |-> 0,
   sentMain |-> 0, sentMaster |-> 0, via |-> "", text |-> ""]

\* variant: the master branch is tried first
StartedTaskOnMaster ==
  [FreshTask EXCEPT !.st = "fetching", !.branch = "master", !.retries = MaxRetries,
                    !.sentMaster = 1]
\* fetchReadme(repoName): fetchWithRetry(mainReadmeUrl, maxRetries)
StartedTask ==
  [FreshTask EXCEPT !.st = "fetching", !.branch = "main", !.retries = MaxRetries,
                    !.sentMain = 1]

\* the catch of the main attempt: fetchWithRetry(masterReadmeUrl, maxRetries)
MasterTask(t) ==
  [t EXCEPT !.st = "fetching", !.branch = "master", !.retries = MaxRetries,
            !.sentMaster = 1, !.delay = 0]

\* variant: the exponent is the remaining-retries counter itself
BackoffDelayByRemaining(retries) == Pow2(retries) * BackoffBaseMs
\* Math.pow(2, maxRetries - retries) * 1000
BackoffDelay(retries) == Pow2(MaxRetries - retries) * BackoffBaseMs

\* a failed request with retries left: wait, then fetchWithRetry(url, retries - 1)
\* variant: the exhaustion test off by one (retries < 0)
RetryAllowedOnZero(retries) == retries >= 0
RetryAllowed(retries) == retries > 0
BackoffTask(t) == [t EXCEPT !.st = "backoff", !.delay = BackoffDelay(t.retries)]
RetriedTask(t) ==
  [t EXCEPT !.st = "fetching", !.retries = t.retries - 1, !.delay = 0,
            !.sentMain = IF t.branch = "main" THEN t.sentMain + 1 ELSE t.sentMain,
            !.sentMaster = IF t.branch = "master" THEN t.sentMaster + 1 ELSE t.sentMaster]

\* what fetchReadme returns when the request of a branch succeeds with body
\* variant: the result of the master attempt dropped
FetchResultMainOnly(branch, body) == IF branch = "master" THEN ReadmeNotAvailable ELSE body
FetchResult(branch, body) == body

DoneTask(t, via, text) == [t EXCEPT !.st = "done", !.via = via, !.text = text, !.delay = 0]

InFlight(t) == t.st \in {"fetching", "backoff"}
\* variant: the tasks are not awaited
AllResolvedNoAwait(ts) == TRUE
\* variant: the first task to settle ends the wait (Promise.race)
AllResolvedRace(ts) == ts = <<>> \/ \E i \in DOMAIN ts : ts[i].st = "done"
\* await Promise.all(tasks), or the end of the sequential loop
AllResolved(ts) == \A i \in DOMAIN ts : ts[i].st = "done"
\* the promises an iteration leaves behind: none once they are all settled; a
\* promise that is not settled goes on by itself
LeftBehind(ts) == IF \E i \in DOMAIN ts : InFlight(ts[i]) THEN ts ELSE <<>>

\* ------------------------------------------------------------------ p-limit
\* pLimit(concurrency) throws unless concurrency is a positive integer
PLimitValid(k) == k > 0
\* variant: the admission test off by one
HasSlotOffByOne(active, k) == active <= k
HasSlot(active, k) == active < k

\* run(): activeCount++, then the function starts (its first request is made)
Admit(g) ==
  [task |-> [g.task EXCEPT ![Head(g.queue)] = StartedTask],
   queue |-> Tail(g.queue),
   active |-> g.active + 1]

\* the microtask each limit(fn) call schedules after enqueueing fn
RECURSIVE Microtasks(_, _, _)
Microtasks(n, g, k) ==
  IF n = 0 THEN g
  ELSE Microtasks(n - 1,
                  IF HasSlot(g.active, k) /\ g.queue # <<>> THEN Admit(g) ELSE g,
                  k)

\* limit(fn) for every record, then the microtasks
GateStart(n, k) ==
  Microtasks(n,
             [task |-> [i \in 1..n |-> FreshTask], queue |-> [i \in 1..n |-> i],
              active |-> 0],
             k)

\* variant: a finished task frees its slot and starts nothing
GateNextIdle(g) == [g EXCEPT !.active = g.active - 1]
\* next(): activeCount--, then the head of the queue runs
GateNext(g) ==
  LET freed == [g EXCEPT !.active = g.active - 1]
  IN IF freed.queue # <<>> THEN Admit(freed) ELSE freed

\* the sequential loop: the record after i starts when i is done
SeqNext(g, i) ==
  IF i < Len(g.task) THEN [g EXCEPT !.task[i + 1] = StartedTask] ELSE g

\* the slot a task writes: repos[index]
\* variant: every task writes the first slot
SlotOfFirst(i) == 1
SlotOf(i) == i

\* ------------------------------------------------------------------ actions
\* everything but the inputs of the run
Start ==
  /\ pc = "main"
  /\ srcIdx = 1
  /\ stage = [s \in 1..NumSources |-> "PENDING"]
  /\ ops = [s \in 1..NumSources |-> NoOps]
  /\ results = <<>>
  /\ repos = <<>>
  /\ reposIsArray = TRUE
  /\ task = <<>>
  /\ queue = <<>>
  /\ activeCount = 0
  /\ owner = 0
  /\ feed = <<>>
  /\ outFiles = <<>>
  /\ dirs = {".", "rss"}
  /\ now = 0

NoProbe ==
  [key |-> "", data |-> <<>>, maxAge |-> 0, savedAt |-> -1, written |-> FALSE,
   readAt |-> -1, got |-> [hit |-> FALSE, isArray |-> TRUE, data |-> <<>>]]

\* main(options) with the options of the command line, no --config
InitDirect ==
  /\ callerOptions \in DirectOptions
  /\ configFile = NoConfigFile
  /\ readmeKind \in ReadmeKinds
  /\ maxListing = MaxRepos
  /\ cacheFiles \in InitialCaches
  /\ probe = NoProbe
  /\ Start

\* main({ configPath }): the run over the sources of a configuration file
InitConfig ==
  /\ callerOptions = [configPath |-> "config.json"]
  /\ configFile \in ConfigFiles
  /\ readmeKind = "short"
  /\ maxListing = MaxReposConfig
  /\ cacheFiles \in {c \in InitialCaches : c = <<>> \/ c[PythonKeyPath].data # <<>>}
  /\ probe = NoProbe
  /\ Start

Inputs == <<callerOptions, configFile, readmeKind, maxListing, probe>>

\* leave the iteration of source srcIdx: the next source, or the return
Advance ==
  /\ repos' = <<>>
  /\ reposIsArray' = TRUE
  /\ task' = LeftBehind(task)
  /\ queue' = IF task' = <<>> THEN <<>> ELSE queue
  /\ activeCount' = IF task' = <<>> THEN 0 ELSE activeCount
  /\ feed' = <<>>
  /\ IF srcIdx < NumSources
       THEN srcIdx' = srcIdx + 1 /\ pc' = "source"
       ELSE srcIdx' = srcIdx /\ pc' = "returned"

\* an error thrown while source srcIdx is processed: the catch of the loop
\* body logs it and the loop goes on; without a config file main rethrows
FailSource ==
  /\ stage' = [stage EXCEPT ![srcIdx] = "FAILED"]
  /\ IF MultiMode
       THEN Advance
       ELSE /\ pc' = "thrown"
            /\ srcIdx' = srcIdx
            /\ repos' = <<>>
            /\ reposIsArray' = TRUE
            /\ task' = LeftBehind(task)
            /\ queue' = IF task' = <<>> THEN <<>> ELSE queue
            /\ activeCount' = IF task' = <<>> THEN 0 ELSE activeCount
            /\ feed' = <<>>

\* main(options) up to the first source
Main ==
  /\ pc = "main"
  /\ pc' = IF MultiMode /\ ~Loaded.ok THEN "thrown" ELSE "source"
  /\ UNCHANGED <<Inputs, srcIdx, stage, results, repos, reposIsArray, task, queue, activeCount,
                 owner, feed, cacheFiles, outFiles, dirs, now, ops>>

\* processSource up to its await: defaults, cache key, cache lookup, and on a
\* miss the trending request
BeginSource ==
  /\ pc = "source"
  /\ LET c == Config(srcIdx)
         url == TrendingUrl(c.timeRange, c.language, BaseUrl(srcIdx))
     IN IF c.useCache
          THEN \E t \in now..MaxTime :
                 LET r == loadFromCache(cacheFiles, CacheKey(srcIdx), c.cacheExpiry,
                                        c.cacheDir, t)
                 IN /\ now' = t
                    /\ repos' = r.data
                    /\ reposIsArray' = r.isArray
                    /\ pc' = IF r.hit THEN "enrich" ELSE "awaitTrending"
                    /\ ops' = [ops EXCEPT ![srcIdx].cacheRead = @ + 1,
                                          ![srcIdx].key = CacheKey(srcIdx),
                                          ![srcIdx].trendingFetch =
                                             IF r.hit THEN @ ELSE @ + 1,
                                          ![srcIdx].url = IF r.hit THEN @ ELSE url]
          ELSE /\ now' = now
               /\ repos' = <<>>
               /\ reposIsArray' = TRUE
               /\ pc' = "awaitTrending"
               /\ ops' = [ops EXCEPT ![srcIdx].trendingFetch = @ + 1,
                                     ![srcIdx].url = url]
  /\ stage' = [stage EXCEPT ![srcIdx] = "FETCHING"]
  /\ UNCHANGED <<Inputs, srcIdx, results, task, queue,
                 activeCount, owner, feed, cacheFiles, outFiles, dirs>>

\* variant: a failed trending request is made again
TrendingFailureRetried ==
  /\ ops[srcIdx].trendingFetch <= MaxRetries
  /\ ops' = [ops EXCEPT ![srcIdx].trendingFetch = @ + 1]
  /\ UNCHANGED <<pc, srcIdx, stage, repos, reposIsArray, task, queue, activeCount,
                 feed, now, cacheFiles>>

\* the trending request fails (non-success status or network error):
\* fetchGitHubTrending logs and rethrows, and so does processSource
TrendingFailure ==
  /\ FailSource
  /\ UNCHANGED <<now, cacheFiles, ops>>

\* the trending request settles: a page, a non-success status or a network
\* error; a page is parsed and, with the cache in use, saved
TrendingResponse ==
  /\ pc = "awaitTrending"
  /\ \/ /\ \E page \in PagesUpTo(maxListing) :
             /\ repos' = parseTrendingRepos(page)
             /\ reposIsArray' = TRUE
             /\ LET c == Config(srcIdx)
                IN IF c.useCache
                     THEN \E t \in now..MaxTime, writable \in BOOLEAN :
                            /\ now' = t
                            /\ cacheFiles' = saveToCache(cacheFiles, CacheKey(srcIdx),
                                                         repos', c.cacheDir, t, writable)
                            /\ ops' = [ops EXCEPT ![srcIdx].cacheSave = @ + 1]
                     ELSE UNCHANGED <<now, cacheFiles, ops>>
        /\ pc' = "enrich"
        /\ UNCHANGED <<srcIdx, stage, task, queue, activeCount, feed>>
     \/ TrendingFailure
  /\ UNCHANGED <<Inputs, results, owner, outFiles, dirs>>

\* the enrichment of the records begins: the p-limit gate and one task per
\* record, or the first turn of the sequential loop. pLimit throws on an
\* invalid limit and repos.map on a value that is no array; the sequential
\* loop makes no turn over such a value (its length is undefined)
StartEnrich ==
  /\ pc = "enrich"
  /\ LET c == Config(srcIdx)
         n == Len(repos)
     IN IF c.parallel /\ (~PLimitValid(c.maxParallelRequests) \/ ~reposIsArray)
          THEN /\ FailSource
               /\ UNCHANGED <<owner, ops>>
          ELSE /\ LET g == IF c.parallel
                             THEN GateStart(n, c.maxParallelRequests)
                             ELSE SeqNext([task |-> [i \in 1..n |-> FreshTask],
                                           queue |-> <<>>, active |-> 0], 0)
                  IN /\ task' = g.task
                     /\ queue' = g.queue
                     /\ activeCount' = g.active
               /\ owner' = srcIdx
               /\ pc' = "awaitTasks"
               /\ stage' = [stage EXCEPT ![srcIdx] = "ENRICHING"]
               /\ ops' = [ops EXCEPT ![srcIdx].readmeFetch = IF n > 0 THEN 1 ELSE @]
               /\ UNCHANGED <<srcIdx, repos, reposIsArray, feed>>
  /\ UNCHANGED <<Inputs, results, cacheFiles, outFiles, dirs, now>>

\* variant: after the slot is written the catch of the task body runs as well
ResolveThenCatch(i, via, text) ==
  LET c == Config(owner)
      g == [task |-> [task EXCEPT ![i] = DoneTask(task[i], via, text)],
            queue |-> queue, active |-> activeCount]
      h == IF c.parallel THEN GateNext(g) ELSE SeqNext(g, i)
  IN /\ repos' = [repos EXCEPT ![SlotOf(i)].readme = ReadmeFetchError]
     /\ reposIsArray' = reposIsArray
     /\ task' = h.task
     /\ queue' = h.queue
     /\ activeCount' = h.active

\* fetchReadme of task i returned text: the readme slot is written, and the
\* gate (or the loop) starts the next record
Resolve(i, via, text) ==
  LET c == Config(owner)
      g == [task |-> [task EXCEPT ![i] = DoneTask(task[i], via, text)],
            queue |-> queue, active |-> activeCount]
      h == IF c.parallel THEN GateNext(g) ELSE SeqNext(g, i)
  IN /\ repos' = [repos EXCEPT ![SlotOf(i)].readme =
                                  summarizeReadme(text, c.maxReadmeLength)]
     /\ reposIsArray' = reposIsArray
     /\ task' = h.task
     /\ queue' = h.queue
     /\ activeCount' = h.active

\* the request in flight for task i settles: a body, a non-success status or
\* a network error
ReadmeResponse(i) ==
  /\ task[i].st = "fetching"
  /\ i \in DOMAIN repos  \* the record array the task was created over
  /\ \/ Resolve(i, task[i].branch,
                FetchResult(task[i].branch, ReadmeBody(repos[i].name, readmeKind)))
     \/ \E kind \in {"status", "neterr"} :
          IF RetryAllowed(task[i].retries)
            THEN /\ task' = [task EXCEPT ![i] = BackoffTask(task[i])]
                 /\ UNCHANGED <<repos, reposIsArray, queue, activeCount>>
            ELSE IF task[i].branch = "main"
                   THEN /\ task' = [task EXCEPT ![i] = MasterTask(task[i])]
                        /\ UNCHANGED <<repos, reposIsArray, queue, activeCount>>
                   ELSE Resolve(i, "none", ReadmeNotAvailable)
  /\ UNCHANGED <<Inputs, pc, srcIdx, stage, results, owner, feed,
                 cacheFiles, outFiles, dirs, now, ops>>

\* the backoff timer of task i fires: the next request is made
TimerFires(i) ==
  /\ task[i].st = "backoff"
  /\ task' = [task EXCEPT ![i] = RetriedTask(task[i])]
  /\ UNCHANGED <<Inputs, pc, srcIdx, stage, results, repos, reposIsArray, queue,
                 activeCount, owner, feed, cacheFiles, outFiles, dirs, now, ops>>

\* Promise.all(tasks) (or the loop) is over: generateRSSFeed(repos, ...),
\* which throws (repos.forEach) on a value that is no array
Render ==
  /\ pc = "awaitTasks"
  /\ AllResolved(task)
  /\ IF reposIsArray
       THEN /\ feed' = generateRSSFeed(repos)
            /\ task' = [i \in DOMAIN task |->
                          IF task[i].st = "done" THEN DoneTask(FreshTask, "", "")
                                                 ELSE task[i]]
            /\ stage' = [stage EXCEPT ![srcIdx] = "RENDERING"]
            /\ pc' = "mkdir"
            /\ UNCHANGED <<srcIdx, repos, reposIsArray, queue, activeCount>>
       ELSE FailSource
  /\ UNCHANGED <<Inputs, results, owner, cacheFiles, outFiles, dirs, now, ops>>

\* variant: a failed mkdirSync takes the output files written so far with it
PrepareOutputClearing ==
  /\ pc = "mkdir"
  /\ LET dir == Dirname(Config(srcIdx).outputPath)
     IN \/ /\ dir \in dirs
           /\ dirs' = dirs
           /\ pc' = "write"
           /\ stage' = [stage EXCEPT ![srcIdx] = "WRITING"]
           /\ UNCHANGED <<srcIdx, repos, reposIsArray, task, queue, activeCount, feed,
                          outFiles>>
        \/ /\ dir \notin dirs
           /\ dirs' = dirs \cup {dir}
           /\ pc' = "write"
           /\ stage' = [stage EXCEPT ![srcIdx] = "WRITING"]
           /\ UNCHANGED <<srcIdx, repos, reposIsArray, task, queue, activeCount, feed,
                          outFiles>>
        \/ /\ dir \notin dirs
           /\ dirs' = dirs
           /\ outFiles' = <<>>
           /\ FailSource
  /\ UNCHANGED <<Inputs, results, owner, cacheFiles, now, ops>>

\* the output directory is created when it does not exist; mkdirSync can fail
PrepareOutput ==
  /\ pc = "mkdir"
  /\ LET dir == Dirname(Config(srcIdx).outputPath)
     IN \/ /\ dir \in dirs
           /\ dirs' = dirs
           /\ pc' = "write"
           /\ stage' = [stage EXCEPT ![srcIdx] = "WRITING"]
           /\ UNCHANGED <<srcIdx, repos, reposIsArray, task, queue, activeCount, feed>>
        \/ /\ dir \notin dirs
           /\ dirs' = dirs \cup {dir}
           /\ pc' = "write"
           /\ stage' = [stage EXCEPT ![srcIdx] = "WRITING"]
           /\ UNCHANGED <<srcIdx, repos, reposIsArray, task, queue, activeCount, feed>>
        \/ /\ dir \notin dirs
           /\ dirs' = dirs
           /\ FailSource
  /\ UNCHANGED <<Inputs, results, owner, cacheFiles, outFiles,
                 now, ops>>

\* writeFileSync(outputPath, rssContent), then the result of the source is
\* recorded; the write can fail
WriteOutput ==
  /\ pc = "write"
  /\ LET c == Config(srcIdx)
     IN \/ /\ outFiles' = [p \in DOMAIN outFiles \cup {c.outputPath} |->
                             IF p = c.outputPath THEN feed ELSE outFiles[p]]
           /\ results' = Append(results,
                                [source |-> IF MultiMode
                                              THEN Loaded.sources[srcIdx].name ELSE "",
                                 outputPath |-> c.outputPath,
                                 items |-> Len(repos)])
           /\ stage' = [stage EXCEPT ![srcIdx] = "DONE"]
           /\ ops' = [ops EXCEPT ![srcIdx].outputWrite = @ + 1]
           /\ Advance
        \/ /\ FailSource
           /\ UNCHANGED <<outFiles, results, ops>>
  /\ UNCHANGED <<Inputs, owner, cacheFiles, dirs, now>>

Next ==
  \/ Main
  \/ BeginSource
  \/ TrendingResponse
  \/ StartEnrich
  \/ \E i \in DOMAIN task : ReadmeResponse(i)
  \/ \E i \in DOMAIN task : TimerFires(i)
  \/ Render
  \/ PrepareOutput
  \/ WriteOutput

SpecDirect == InitDirect /\ [][Next]_vars
SpecConfig == InitConfig /\ [][Next]_vars

\* ------------------------------------------- the cache store called directly
\* record batches of every length up to MaxRepos, with and without readme text
ProbeBatches ==
  UNION {{[i \in 1..n |-> [parseTrendingRepos(PageOf(n))[i] EXCEPT !.readme = rd[i]]] :
            rd \in [1..n -> {"", "# doc"}]} : n \in 0..MaxRepos}
ProbeKeys ==
  {generateCacheKey("python", "daily", DefaultBaseUrl), generateCacheKey("", "weekly", "")}
ProbeMaxAges == {0, 1, 2, DefaultCacheExpiry}

\* saveToCache(key, records) then loadFromCache(key, maxAge), on a cache
\* directory an earlier run may have left an entry in
InitCacheStore ==
  /\ callerOptions = <<>>
  /\ configFile = NoConfigFile
  /\ readmeKind = "short"
  /\ maxListing = MaxRepos
  /\ cacheFiles \in InitialCaches
  /\ probe \in {[NoProbe EXCEPT !.key = k, !.data = d, !.maxAge = a] :
                  k \in ProbeKeys, d \in ProbeBatches, a \in ProbeMaxAges}
  /\ Start

Program == <<callerOptions, configFile, pc, srcIdx, stage, results, repos, reposIsArray, task,
             queue, activeCount, owner, feed, outFiles, dirs, readmeKind,
             maxListing, ops>>

\* saveToCache(key, data, cacheDir): Date.now() is read, the write can fail
ProbeSave ==
  /\ probe.savedAt = -1
  /\ \E t \in now..MaxTime, writable \in BOOLEAN :
       /\ now' = t
       /\ cacheFiles' = saveToCache(cacheFiles, probe.key, probe.data,
                                    DefaultCacheDir, t, writable)
       /\ probe' = [probe EXCEPT !.savedAt = t, !.written = writable]
  /\ UNCHANGED Program

\* loadFromCache(key, maxAge, cacheDir): Date.now() is read
ProbeLoad ==
  /\ probe.savedAt >= 0
  /\ probe.readAt = -1
  /\ \E t \in now..MaxTime :
       /\ now' = t
       /\ probe' = [probe EXCEPT !.readAt = t,
                                 !.got = loadFromCache(cacheFiles, probe.key,
                                                       probe.maxAge, DefaultCacheDir, t)]
  /\ UNCHANGED <<Program, cacheFiles>>

NextCacheStore == ProbeSave \/ ProbeLoad
SpecCacheStore == InitCacheStore /\ [][NextCacheStore]_vars

TypeOK ==
  /\ pc \in {"main", "source", "awaitTrending", "enrich", "awaitTasks", "mkdir",
             "write", "returned", "thrown"}
  /\ srcIdx \in 1..Max(1, NumSources)
  /\ now \in 0..MaxTime
  /\ activeCount \in 0..maxListing
  /\ reposIsArray \in BOOLEAN
  /\ Len(repos) <= maxListing

\* =================================================================== claims
Running == {i \in DOMAIN task : InFlight(task[i])}
Queued == {i \in DOMAIN task : task[i].st = "queued"}
\* the tasks of the current enrichment run behind the p-limit gate
Gated == task # <<>> /\ owner >= 1 /\ Config(owner).parallel
\* every task of the source has resolved and its feed is not rendered yet
EnrichmentComplete == pc = "awaitTasks" /\ AllResolved(task)

\* C1: during parallel enrichment with limit K at most K tasks are started and
\* unresolved in any state, and a task waits in the queue only while K tasks
\* are running.
C1_BoundedConcurrency ==
  Gated =>
    /\ Cardinality(Running) <= Config(owner).maxParallelRequests
    /\ activeCount = Cardinality(Running)
    /\ Queued # {} => Cardinality(Running) = Config(owner).maxParallelRequests

\* C1 witness: the limit binds: K tasks run while another one waits.
C1_Witness ==
  /\ Gated
  /\ Queued # {}
  /\ Cardinality(Running) = Config(owner).maxParallelRequests

\* what summarizeReadme is specified to give: the text, cut at the maximum
\* with the notice appended when it is longer
Truncated(text, maxLength) ==
  IF Len(text) <= maxLength THEN text ELSE SubSeq(text, 1, maxLength) \o TruncationNotice
\* the README.md of record i
BodyOf(i) == ReadmeBody(repos[i].name, readmeKind)
\* the tasks still carry what their fetchReadme call did
Enriching == pc = "awaitTasks" /\ owner = srcIdx

\* C2 as stated: after enrichment completes every record has a non-empty
\* readme field, whatever the README requests answered.
C2_AlwaysNonEmpty ==
  EnrichmentComplete => \A i \in DOMAIN repos : repos[i].readme # ""

\* C2 amended: after enrichment completes every record's readme has been
\* written by its task, and it is non-empty (content, truncated content or
\* the placeholder text) unless a README request succeeded with an empty body,
\* in which case it is the empty string.
C2_WrittenBySuccessOrPlaceholder ==
  EnrichmentComplete =>
    /\ Len(task) = Len(repos)
    /\ \A i \in DOMAIN repos :
         /\ task[i].st = "done"
         /\ task[i].via = "none" => repos[i].readme # ""
         /\ task[i].via # "none" =>
              IF BodyOf(i) = "" THEN repos[i].readme = "" ELSE repos[i].readme # ""

\* C2 witness: enrichment is complete with a record that got the placeholder
\* and a record whose README request succeeded.
C2_Witness ==
  /\ EnrichmentComplete
  /\ \E i, j \in DOMAIN repos : task[i].via = "none" /\ task[j].via = "master"

\* C3 as stated: when the multi-source run returns, its outcome has an entry
\* for every configured source, the failed ones included.
C3_OutcomeListsEverySource ==
  (MultiMode /\ pc = "returned") =>
    \A s \in 1..NumSources :
      \E j \in 1..Len(results) : results[j].source = Loaded.sources[s].name

\* C4: when every main-branch request of a record failed and the first
\* master-branch request succeeded, the record's readme is the master content
\* cut at the configured maximum, not the placeholder.
C4_BranchFallback ==
  Enriching =>
    \A i \in DOMAIN task :
      (/\ task[i].st = "done"
       /\ task[i].sentMain = MaxRetries + 1
       /\ task[i].sentMaster = 1) =>
        /\ repos[i].readme = Truncated(BodyOf(i), Config(owner).maxReadmeLength)
        /\ task[i].text # ReadmeNotAvailable

\* C4 witness: a record resolved by the first master request after the main
\* branch used up its retries, with a README longer than the maximum.
C4_Witness ==
  /\ Enriching
  /\ \E i \in DOMAIN task :
       /\ task[i].st = "done"
       /\ task[i].sentMain = MaxRetries + 1
       /\ task[i].sentMaster = 1
       /\ Len(BodyOf(i)) > Config(owner).maxReadmeLength

\* C5 as stated: a record whose main and master attempts both used up their
\* retries has exactly the placeholder string as readme, for every configured
\* maximum README length.
C5_PlaceholderVerbatim ==
  Enriching =>
    \A i \in DOMAIN task :
      (task[i].st = "done" /\ task[i].via = "none") => repos[i].readme = ReadmeNotAvailable

\* C6: for each branch of each record at most maxRetries + 1 requests are
\* made, whether the failures are statuses or network errors, so at most
\* 2 * (maxRetries + 1) per record.
C6_RequestBound ==
  \A i \in DOMAIN task :
    /\ task[i].sentMain <= MaxRetries + 1
    /\ task[i].sentMaster <= MaxRetries + 1
    /\ task[i].sentMain + task[i].sentMaster <= 2 * (MaxRetries + 1)

\* C6 witness: a record for which both branches made all their requests.
C6_Witness ==
  \E i \in DOMAIN task :
    task[i].sentMain = MaxRetries + 1 /\ task[i].sentMaster = MaxRetries + 1

\* the cache expiry the run was configured with
ConfiguredExpiry(s) == DefinedOr(OptionsFor(s), "cacheExpiry", DefaultCacheExpiry)
\* the source took its records from the cache entry
UsedCacheEntry ==
  /\ pc = "enrich"
  /\ ops[srcIdx].cacheRead = 1
  /\ ops[srcIdx].trendingFetch = 0

\* C7 as stated: a source run configured with cache expiry E uses a cache
\* entry only while now - capturedAt <= E.
C7_EntryUsedOnlyWithinExpiry ==
  UsedCacheEntry =>
    now - cacheFiles[CachePath(Config(srcIdx).cacheDir, CacheKey(srcIdx))].timestamp
      <= ConfiguredExpiry(srcIdx)

\* C8: after saveToCache(key, records) succeeded, loadFromCache(key, maxAge)
\* with maxAge larger than the elapsed time returns the same records in the
\* same order, for every number of records including none.
C8_RoundTrip ==
  (/\ probe.readAt >= 0
   /\ probe.written
   /\ probe.maxAge > probe.readAt - probe.savedAt) =>
    /\ probe.got.hit
    /\ Len(probe.got.data) = Len(probe.data)
    /\ \A i \in 1..Len(probe.data) : probe.got.data[i] = probe.data[i]

\* C8 witness: an empty batch was saved and read back later, within maxAge.
C8_Witness ==
  /\ probe.readAt > probe.savedAt
  /\ probe.written
  /\ probe.maxAge > probe.readAt - probe.savedAt
  /\ probe.data = <<>>
  /\ probe.got.hit

\* identifiers of the records, in order
Identifiers(rs) == [i \in 1..Len(rs) |-> <<rs[i].name, rs[i].url>>]

\* C9: in parallel enrichment, whatever the order in which the tasks complete,
\* the slot of record i holds the result of task i once that task is done and
\* is untouched before, and the records keep their order and identifiers from
\* the scraped sequence up to the output write.
C9_SlotIsolation ==
  /\ [](Gated /\ Enriching =>
          /\ Len(repos) = Len(task)
          /\ \A i \in DOMAIN task :
               repos[i].readme =
                 IF task[i].st = "done"
                   THEN Truncated(IF task[i].via = "none" THEN ReadmeNotAvailable
                                                           ELSE BodyOf(i),
                                  Config(owner).maxReadmeLength)
                   ELSE "")
  /\ [][(/\ Config(srcIdx).parallel
         /\ pc \in {"enrich", "awaitTasks", "mkdir"}
         /\ pc' \in {"awaitTasks", "mkdir", "write"}) =>
          Identifiers(repos') = Identifiers(repos)]_vars

\* C9 witness: the task of the second record completed while the task of the
\* first is still running, and the second slot holds its text.
C9_Witness ==
  /\ Gated /\ Enriching
  /\ Len(task) >= 2
  /\ InFlight(task[1])
  /\ task[2].st = "done"
  /\ repos[2].readme # ""
  /\ repos[1].readme = ""

\* C10: in multi-source mode the sources are processed one after another in
\* configuration order: every source before the current one is DONE or FAILED,
\* no later source has performed any operation, and README requests are only
\* in flight for the current source while it is not DONE or FAILED.
C10_SourcesSequential ==
  (MultiMode /\ pc \notin {"main", "thrown"}) =>
    /\ \A s \in 1..NumSources :
         /\ s < srcIdx => stage[s] \in FinalStages
         /\ s > srcIdx => stage[s] = "PENDING" /\ ops[s] = NoOps
         /\ ops[s] # NoOps => \A r \in 1..(s - 1) : stage[r] \in FinalStages
    /\ (\E i \in DOMAIN task : InFlight(task[i])) =>
         owner = srcIdx /\ stage[owner] \notin FinalStages

\* C10 witness: the second source is fetching its READMEs after the first
\* one ended, and the third has not begun.
C10_Witness ==
  /\ MultiMode
  /\ NumSources = 3
  /\ srcIdx = 2
  /\ stage[1] \in FinalStages
  /\ stage[2] = "ENRICHING"
  /\ \E i \in DOMAIN task : InFlight(task[i])
  /\ stage[3] = "PENDING"

\* C11: a trending-page fetch is attempted at most once per source run; when
\* it fails it is not made again, the error leaves processSource and the
\* source fails (the loop goes on to the next source, or main throws).
C11_TrendingFetchOnce ==
  /\ [](\A s \in DOMAIN ops : ops[s].trendingFetch <= 1)
  /\ [][(pc = "awaitTrending" /\ pc' # "enrich") =>
          /\ stage'[srcIdx] = "FAILED"
          /\ ops' = ops
          /\ pc' \in (IF MultiMode THEN {"source", "returned"} ELSE {"thrown"})]_vars

\* C11 witness: a source that missed the cache, made its one trending request
\* and failed on it.
C11_Witness ==
  \E s \in DOMAIN ops :
    /\ stage[s] = "FAILED"
    /\ ops[s].cacheRead = 1
    /\ ops[s].trendingFetch = 1
    /\ ops[s].cacheSave = 0
    /\ Config(s).parallel
    /\ PLimitValid(Config(s).maxParallelRequests)

\* ------------------------------------- the settings merge called directly
\* sources as a configuration file can give them: a source entry may carry
\* any key, the four source fields and settings such as cacheExpiry
MergeSources ==
  {SourcePython, SourceMirror,
   Spread(SourcePython, [baseUrl |-> "https://mirror.example/trending"]),
   Spread(SourcePython, [cacheExpiry |-> 7])}
MergeGlobals ==
  {GlobalBase,
   [GlobalBase EXCEPT !.parallel = FALSE],
   Spread(GlobalBase, [timeRange |-> "weekly"]),
   Spread(GlobalBase, [outputPath |-> "rss/all.xml"])}
MergeCallers ==
  {[configPath |-> "config.json"],
   [configPath |-> "config.json", cacheExpiry |-> 9],
   [configPath |-> "config.json", language |-> "go"],
   [configPath |-> "config.json", timeRange |-> "monthly", maxReadmeLength |-> 10]}

\* the settings processSource works with, for the options main builds
EffectiveSettings(source, global, caller) ==
  LET o == SourceOptionsOf(source, global, caller)
  IN Spread(EffectiveConfig(o), [baseUrl |-> EffectiveBaseUrl(o)])

InitMerge ==
  /\ callerOptions = <<>>
  /\ configFile = NoConfigFile
  /\ readmeKind = "short"
  /\ maxListing = MaxRepos
  /\ cacheFiles = <<>>
  /\ probe \in {[source |-> src, global |-> g, caller |-> c, done |-> FALSE, got |-> <<>>] :
                  src \in MergeSources, g \in MergeGlobals, c \in MergeCallers}
  /\ Start

\* the sourceOptions literal of main, then the config literal of processSource
ProbeMerge ==
  /\ ~probe.done
  /\ probe' = [probe EXCEPT !.done = TRUE,
                            !.got = EffectiveSettings(probe.source, probe.global,
                                                      probe.caller)]
  /\ UNCHANGED <<Program, cacheFiles, now>>

NextMerge == ProbeMerge
SpecMerge == InitMerge /\ [][NextMerge]_vars

\* the value the three tiers give key k: the caller's, else the source's,
\* else the global block's, else whatever the built-in default is
ThreeTier(k) ==
  IF Has(probe.caller, k) THEN probe.caller[k]
  ELSE IF Has(probe.source, k) THEN probe.source[k]
  ELSE IF Has(probe.global, k) THEN probe.global[k]
  ELSE probe.got[k]

\* C12 as stated: for every setting key, the effective value is the caller's
\* override when there is one, else the source-level value when there is one,
\* else the global block's value.
C12_ThreeTierMerge ==
  probe.done => \A k \in DOMAIN probe.got : probe.got[k] = ThreeTier(k)

\* a configuration error as the claim lists them: the file is missing, the
\* sources list is missing or empty, or a source lacks a required field
RequiredFields == {"name", "language", "timeRange", "outputPath"}
ConfigError(file) ==
  \/ ~file.exists
  \/ ~Has(file.doc, "sources")
  \/ Len(file.doc["sources"]) = 0
  \/ \E i \in 1..Len(file.doc["sources"]) :
       \E k \in RequiredFields : ~Has(file.doc["sources"][i], k)

\* C13: with a configuration error the run throws before any trending or
\* README request is made and before any cache or output file is written; no
\* source is processed.
C13_ConfigErrorBeforeAnyWork ==
  /\ []((MultiMode /\ ConfigError(configFile)) =>
          /\ pc \in {"main", "thrown"}
          /\ \A s \in DOMAIN stage : stage[s] = "PENDING"
          /\ \A s \in DOMAIN ops : ops[s] = NoOps
          /\ task = <<>>
          /\ results = <<>>
          /\ outFiles = <<>>)
  /\ [][(MultiMode /\ ConfigError(configFile)) =>
          cacheFiles' = cacheFiles /\ outFiles' = outFiles /\ dirs' = dirs]_vars

\* C13 witness: the run has thrown on a file whose first source is valid and
\* whose second source lacks a field.
C13_Witness ==
  /\ MultiMode
  /\ pc = "thrown"
  /\ configFile.exists
  /\ Has(configFile.doc, "sources")
  /\ Len(configFile.doc["sources"]) = 2
  /\ MissingField(configFile.doc["sources"][1]) = ""
  /\ ~Has(configFile.doc["sources"][2], "outputPath")

\* a configuration file with no global block and one source that has every
\* required field
NoGlobalOneSource ==
  /\ MultiMode
  /\ configFile.exists
  /\ ~Has(configFile.doc, "global")
  /\ Has(configFile.doc, "sources")
  /\ Len(configFile.doc["sources"]) = 1
  /\ \A k \in RequiredFields : Has(configFile.doc["sources"][1], k)

\* C14: for a configuration file with no global block and one valid source no
\* configuration error is raised and the source is processed with the
\* built-in defaults: cache enabled, cache expiry 3600000 ms, concurrency
\* limit 5.
C14_ConfigDefaults ==
  NoGlobalOneSource =>
    /\ pc # "thrown"
    /\ pc # "main" =>
         /\ NumSources = 1
         /\ Config(1).useCache
         /\ Config(1).cacheExpiry = 3600000
         /\ Config(1).parallel
         /\ Config(1).maxParallelRequests = 5
         /\ stage[1] # "PENDING" => ops[1].cacheRead = 1

\* C14 witness: the source of such a file has been processed to the end.
C14_Witness ==
  /\ NoGlobalOneSource
  /\ pc = "returned"
  /\ stage[1] = "DONE"

\* C15 as stated: the cache key used for a source whose baseUrl is not
\* overridden does not embed the base URL: it is the key built from language
\* and timeRange alone.
C15_DefaultKeyOmitsBaseUrl ==
  \A s \in DOMAIN ops :
    (ops[s].cacheRead >= 1 /\ ~Has(OptionsFor(s), "baseUrl")) =>
      ops[s].key = "trending_" \o Config(s).language \o "_" \o Config(s).timeRange

\* --------------------------------------- the cache key of two sources
\* base URLs of a source: "" stands for no override; two custom hosts whose
\* sanitized forms coincide, and one whose sanitized form is the default's
KeyUrls ==
  {"", "https://mirror.example/trending", "https://mirror-example/trending",
   "https://github.com.trending"}
KeyLanguages == {"python", "go", "c++"}
KeyTimeRanges == {"daily", "weekly"}

\* the options of a source with that base URL
KeyOptions(language, timeRange, url) ==
  IF url = "" THEN [language |-> language, timeRange |-> timeRange]
  ELSE [language |-> language, timeRange |-> timeRange, baseUrl |-> url]
\* the cache key processSource builds for those options
SourceKey(o) ==
  generateCacheKey(EffectiveConfig(o).language, EffectiveConfig(o).timeRange,
                   EffectiveBaseUrl(o))

InitKey ==
  /\ callerOptions = <<>>
  /\ configFile = NoConfigFile
  /\ readmeKind = "short"
  /\ maxListing = MaxRepos
  /\ cacheFiles = <<>>
  /\ probe \in {[language |-> l, timeRange |-> r, urlA |-> a, urlB |-> b,
                 done |-> FALSE, keyA |-> "", keyB |-> ""] :
                  l \in KeyLanguages, r \in KeyTimeRanges, a \in KeyUrls, b \in KeyUrls}
  /\ Start

\* processSource computes the key of each of the two sources
ProbeKey ==
  /\ ~probe.done
  /\ probe' = [probe EXCEPT
                 !.done = TRUE,
                 !.keyA = SourceKey(KeyOptions(probe.language, probe.timeRange, probe.urlA)),
                 !.keyB = SourceKey(KeyOptions(probe.language, probe.timeRange, probe.urlB))]
  /\ UNCHANGED <<Program, cacheFiles, now>>

NextKey == ProbeKey
SpecKey == InitKey /\ [][NextKey]_vars

\* the base URL a source fetches from
UrlOf(u) == IF u = "" THEN DefaultBaseUrl ELSE u

\* C16 as stated: the key is a function of (language, timeRange, baseUrl); for
\* the same language and timeRange two sources with different base URLs get
\* the same key only if the sanitized forms of their base URLs are identical;
\* and a custom source never shares a key with the default source.
C16_KeysCollideOnlyOnSanitizedForm ==
  probe.done =>
    /\ probe.urlA = probe.urlB => probe.keyA = probe.keyB
    /\ (UrlOf(probe.urlA) # UrlOf(probe.urlB) /\ probe.keyA = probe.keyB) =>
         SanitizeUrl(UrlOf(probe.urlA)) = SanitizeUrl(UrlOf(probe.urlB))
    /\ (probe.urlA = "" /\ UrlOf(probe.urlB) # DefaultBaseUrl) => probe.keyA # probe.keyB

\* the file of the current source's cache key, when there is one
EntryOf(s) == cacheFiles[CachePath(Config(s).cacheDir, CacheKey(s))]
HasEntry(s) == CachePath(Config(s).cacheDir, CacheKey(s)) \in DOMAIN cacheFiles
\* the entry is what saveToCache writes: JSON with an array of records as data
WellFormed(e) == e.valid /\ e.isArray

\* C17 as stated: the cache never fails the run: a cache file that is missing,
\* unreadable, malformed or structurally wrong reads as absent, and the source
\* run goes on as on a cache miss, with a trending request.
C17_BrokenEntryReadsAsMiss ==
  (/\ pc \in {"awaitTrending", "enrich"}
   /\ ops[srcIdx].cacheRead = 1
   /\ ops[srcIdx].cacheSave = 0
   /\ HasEntry(srcIdx)
   /\ ~WellFormed(EntryOf(srcIdx))) =>
    /\ pc = "awaitTrending"
    /\ ops[srcIdx].trendingFetch = 1

\* --------------------------------------- summarizeReadme called directly
SummaryTexts ==
  {"", "a", "ab", "abcde", "abcdef", "# o/r1 - installation and usage",
   ReadmeNotAvailable}
SummaryMaxima == {0, 1, 2, 5, 6, 10, Len(ReadmeNotAvailable), DefaultMaxReadmeLength}

InitSummary ==
  /\ callerOptions = <<>>
  /\ configFile = NoConfigFile
  /\ readmeKind = "short"
  /\ maxListing = MaxRepos
  /\ cacheFiles = <<>>
  /\ probe \in {[text |-> t, max |-> m, done |-> FALSE, got |-> ""] :
                  t \in SummaryTexts, m \in SummaryMaxima}
  /\ Start

\* summarizeReadme(text, max)
ProbeSummary ==
  /\ ~probe.done
  /\ probe' = [probe EXCEPT !.done = TRUE, !.got = summarizeReadme(probe.text, probe.max)]
  /\ UNCHANGED <<Program, cacheFiles, now>>

NextSummary == ProbeSummary
SpecSummary == InitSummary /\ [][NextSummary]_vars

\* C18: summarizeReadme(text, max) is text unchanged when the length of text
\* is at most max, and otherwise the first max characters of text followed by
\* the fixed truncation notice.
C18_SummarizeReadme ==
  probe.done =>
    IF Len(probe.text) <= probe.max
      THEN probe.got = probe.text
      ELSE /\ Len(probe.got) = probe.max + Len(TruncationNotice)
           /\ SubSeq(probe.got, 1, probe.max) = SubSeq(probe.text, 1, probe.max)
           /\ SubSeq(probe.got, probe.max + 1, Len(probe.got)) =
                "\n\n... [README content truncated due to size. Visit the repository for the complete README] ..."

\* C18 witness: a text longer than the maximum was cut, and it is not the
\* whole text that was dropped.
C18_Witness ==
  /\ probe.done
  /\ probe.max > 0
  /\ Len(probe.text) > probe.max
  /\ probe.got # probe.text

\* the listing of the current source is empty
EmptyListing == reposIsArray /\ repos = <<>>

\* C19: a trending listing with no repository block gives an empty sequence,
\* not a failure, and the source run goes through enrichment and rendering
\* with no task and an empty feed, and when its write succeeds it is DONE with
\* an output feed of zero items, also when the empty listing came from the
\* cache.
C19_EmptyListing ==
  /\ [][(/\ pc = "enrich"
         /\ EmptyListing
         /\ Config(srcIdx).parallel => PLimitValid(Config(srcIdx).maxParallelRequests)) =>
          /\ pc' = "awaitTasks"
          /\ task' = <<>>
          /\ stage'[srcIdx] = "ENRICHING"]_vars
  /\ [][(pc = "awaitTasks" /\ EmptyListing) =>
          /\ pc' = "mkdir"
          /\ feed' = <<>>
          /\ stage'[srcIdx] = "RENDERING"]_vars
  /\ [][(pc = "write" /\ EmptyListing /\ stage'[srcIdx] = "DONE") =>
          /\ outFiles'[Config(srcIdx).outputPath] = <<>>
          /\ results'[Len(results')].items = 0]_vars
  /\ [](\A j \in 1..Len(results) :
          results[j].items = 0 => outFiles[results[j].outputPath] = <<>>)

\* C19 witness: a run is DONE with a feed of zero items for an empty listing
\* it took from the cache.
C19_Witness ==
  /\ pc = "returned"
  /\ stage[1] = "DONE"
  /\ ops[1].cacheRead = 1
  /\ ops[1].trendingFetch = 0
  /\ Len(results) = 1
  /\ results[1].items = 0
  /\ outFiles[results[1].outputPath] = <<>>

\* the language the configuration file gives source s
SourceLanguage(s) == Loaded.sources[s]["language"]

\* C20 as stated: the trending request of a source targets the base URL with
\* a language path segment only when the source's language is non-empty; for
\* the empty language it is the base URL and the range parameter alone.
C20_LanguageSegmentOnlyWhenNonEmpty ==
  MultiMode =>
    \A s \in DOMAIN ops :
      ops[s].trendingFetch = 1 =>
        ops[s].url =
          BaseUrl(s)
            \o (IF SourceLanguage(s) # ""
                  THEN "/" \o encodeURIComponent(SourceLanguage(s)) ELSE "")
            \o "?since=" \o Config(s).timeRange

\* ------------------------------------------------ the run from the command line
\* the CLI action: process.exit(1) in the catch around main, the normal end of
\* the process otherwise
\* variant: the catch does not set the status
ExitCodeAlwaysZero(thrown) == 0
ExitCode(thrown) == IF thrown THEN 1 ELSE 0

\* the promise of main has settled
Ended == pc \in {"thrown", "returned"}
ExitStatus == ExitCode(pc = "thrown")

\* runs with and without --config: the settings that make the enrichment gate
\* valid or invalid, in parallel and in sequence, over every cache directory,
\* and every configuration file
ExitOptions ==
  {o \in DirectOptions :
     o.cacheExpiry = 2 /\ o.useCache /\ o.maxReadmeLength = 20000
       /\ o.maxParallelRequests \in {1, -1}}
InitExit ==
  /\ \/ /\ callerOptions \in ExitOptions
        /\ configFile = NoConfigFile
        /\ cacheFiles \in InitialCaches
     \/ /\ callerOptions = [configPath |-> "config.json"]
        /\ configFile \in ConfigFiles
        /\ cacheFiles = <<>>
  /\ readmeKind = "short"
  /\ maxListing = MaxReposConfig
  /\ probe = NoProbe
  /\ Start
SpecExit == InitExit /\ [][Next]_vars

\* C21: the process ends with a non-zero status exactly when main throws: on
\* a configuration error, or, without a configuration file, when the source
\* fails; a run over a configuration file in which sources failed, or a run in
\* which README requests failed, ends with status 0.
C21_ExitStatus ==
  Ended =>
    /\ ExitStatus # 0 <=>
         IF MultiMode THEN ConfigError(configFile) ELSE stage[1] = "FAILED"
    /\ (MultiMode /\ ~ConfigError(configFile)) => ExitStatus = 0
    /\ (~MultiMode /\ stage[1] = "DONE") => ExitStatus = 0

\* C21 witness: a run over a configuration file has ended with status 0 with
\* one source failed and another one written.
C21_Witness ==
  /\ Ended
  /\ MultiMode
  /\ ExitStatus = 0
  /\ \E s \in DOMAIN stage : stage[s] = "FAILED"
  /\ \E s \in DOMAIN stage : stage[s] = "DONE"

\* the cache file of source s and the entry saveToCache leaves for records rs
\* captured at instant t
EntryPath(s) == CachePath(Config(s).cacheDir, CacheKey(s))
SavedEntry(rs, t) ==
  [valid |-> TRUE, timestamp |-> t, isArray |-> TRUE, data |-> JsonStringify(rs)]
\* the step in which the trending request of the current source succeeds
FetchSucceeds == pc = "awaitTrending" /\ pc' = "enrich"

\* C22 as stated: after a successful trending fetch the cache holds an entry
\* for the source's key with the complete fetched record sequence, whatever
\* the cache settings of the run.
C22_EntryAfterEveryFetch ==
  [][FetchSucceeds =>
       /\ EntryPath(srcIdx) \in DOMAIN cacheFiles'
       /\ cacheFiles'[EntryPath(srcIdx)].valid
       /\ cacheFiles'[EntryPath(srcIdx)].data = JsonStringify(repos')]_vars

\* C22 amended: with caching enabled a successful trending fetch is followed
\* by one save under the source's key, which either fails and leaves the cache
\* directory as it was, or leaves an entry with the capture time and the
\* complete fetched record sequence and no other file changed; with caching
\* disabled nothing is saved; the cache directory changes in no other step.
C22_EntrySavedWhenCaching ==
  /\ [][(FetchSucceeds /\ Config(srcIdx).useCache) =>
          /\ ops'[srcIdx].cacheSave = ops[srcIdx].cacheSave + 1
          /\ \/ cacheFiles' = cacheFiles
             \/ /\ DOMAIN cacheFiles' = DOMAIN cacheFiles \cup {EntryPath(srcIdx)}
                /\ cacheFiles'[EntryPath(srcIdx)] = SavedEntry(repos', now')
                /\ JsonParse(cacheFiles'[EntryPath(srcIdx)].data) = repos'
                /\ \A p \in DOMAIN cacheFiles \ {EntryPath(srcIdx)} :
                     cacheFiles'[p] = cacheFiles[p]]_vars
  /\ [][(FetchSucceeds /\ ~Config(srcIdx).useCache) =>
          cacheFiles' = cacheFiles /\ ops'[srcIdx].cacheSave = 0]_vars
  /\ [][cacheFiles' # cacheFiles => (FetchSucceeds /\ Config(srcIdx).useCache)]_vars

\* C22 witness: a source that read the cache later than its expiry allows
\* for any earlier entry has fetched a full listing, and the entry of its key
\* is that listing with the capture time.
C22_Witness ==
  /\ pc = "enrich"
  /\ ops[srcIdx].cacheSave = 1
  /\ Len(repos) = maxListing
  /\ EntryPath(srcIdx) \in DOMAIN cacheFiles
  /\ cacheFiles[EntryPath(srcIdx)] = SavedEntry(repos, now)
  /\ now > Config(srcIdx).cacheExpiry

\* the stages of a source run in their order, and the steps between them
StageOrder == <<"PENDING", "FETCHING", "ENRICHING", "RENDERING", "WRITING", "DONE">>
StageSteps ==
  {<<StageOrder[i], StageOrder[i + 1]>> : i \in 1..(Len(StageOrder) - 1)}
    \cup {<<StageOrder[i], "FAILED">> : i \in 1..(Len(StageOrder) - 1)}
\* the output file of source s holds a feed
Written(s) == Config(s).outputPath \in DOMAIN outFiles

\* C23: the stage of a source changes only along PENDING, FETCHING,
\* ENRICHING, RENDERING, WRITING, DONE, one step at a time, or to FAILED; only
\* the source being processed changes stage; the feed is rendered only when
\* every record has a task and every task has resolved; the output file is
\* written only in the step from WRITING to DONE, with the feed rendered from
\* the enriched records; a source that is DONE has written its output file.
C23_StageMachine ==
  /\ [][\A s \in DOMAIN stage :
          stage'[s] # stage[s] =>
            /\ <<stage[s], stage'[s]>> \in StageSteps
            /\ s = srcIdx]_vars
  /\ [][(stage'[srcIdx] = "RENDERING" /\ stage[srcIdx] # "RENDERING") =>
          /\ DOMAIN task = DOMAIN repos
          /\ \A i \in DOMAIN task : task[i].st = "done"
          /\ feed' = generateRSSFeed(repos)]_vars
  /\ [][outFiles' # outFiles =>
          /\ stage[srcIdx] = "WRITING"
          /\ stage'[srcIdx] = "DONE"
          /\ \A i \in DOMAIN task : task[i].st = "done"
          /\ outFiles'[Config(srcIdx).outputPath] = generateRSSFeed(repos)]_vars
  /\ [](\A s \in DOMAIN stage :
          /\ stage[s] = "DONE" => (Written(s) /\ ops[s].outputWrite = 1)
          /\ stage[s] \in {"PENDING", "FETCHING", "ENRICHING", "RENDERING", "WRITING"} =>
               ops[s].outputWrite = 0)

\* C23 witness: a source that fetched a listing of the greatest length, with
\* more than one record to enrich, is DONE with its output file written.
C23_Witness ==
  /\ stage[1] = "DONE"
  /\ Written(1)
  /\ Len(results) = 1
  /\ results[1].items = maxListing
  /\ maxListing > 1
  /\ ops[1].trendingFetch = 1

\* the requests task t has made for the branch it is working on, and the
\* retries among them
SentOnBranch(t) == IF t.branch = "main" THEN t.sentMain ELSE t.sentMaster
RetriesMade(t) == SentOnBranch(t) - 1
\* the delays of the claim in milliseconds, for the default maxRetries of 3
DelaysMs == <<1000, 2000, 4000>>

\* C24: while a task waits before the k-th retry of a branch (k = 0 for the
\* first retry) its delay is 2^k seconds: 1 s, 2 s, 4 s with maxRetries = 3,
\* strictly increasing within the branch, and starting again at 1 s for the
\* master branch.
C24_BackoffDelays ==
  /\ [](\A i \in DOMAIN task :
          task[i].st = "backoff" =>
            /\ RetriesMade(task[i]) \in 0..(MaxRetries - 1)
            /\ task[i].delay = DelaysMs[RetriesMade(task[i]) + 1]
            /\ \A k \in 1..RetriesMade(task[i]) : DelaysMs[k] < task[i].delay)
  /\ [][\A i \in DOMAIN task \cap DOMAIN task' :
          (task[i].branch = "main" /\ task'[i].branch = "master") =>
            /\ task[i].sentMain = MaxRetries + 1
            /\ task'[i].sentMaster = 1
            /\ task'[i].delay = 0]_vars
  /\ [][\A i \in DOMAIN task \cap DOMAIN task' :
          (task'[i].st = "backoff" /\ task[i].st # "backoff"
             /\ task[i].branch = "master" /\ task[i].sentMaster = 1) =>
            task'[i].delay = DelaysMs[1]]_vars

\* C24 witness: a task waits 4 s before the last retry of the master branch,
\* after the four requests of the main branch.
C24_Witness ==
  \E i \in DOMAIN task :
    /\ task[i].st = "backoff"
    /\ task[i].branch = "master"
    /\ task[i].sentMain = 4
    /\ task[i].sentMaster = 3
    /\ task[i].delay = 4000

\* the source run is between the start of its enrichment and its write
AfterFetch == {"awaitTasks", "mkdir", "write"}
\* task j resolves in this step: its one write of a readme slot
Resolves(j) == task[j].st # "done" /\ task'[j].st = "done"
\* record r with the readme fetchReadme returned as text, under cap maxLength
Enriched(r, text, maxLength) == [r EXCEPT !.readme = summarizeReadme(text, maxLength)]

\* C25: during a source run a record changes only in the step in which its
\* own task resolves, and then only in its readme, which becomes the
\* summarized text fetchReadme returned for it (content or placeholder, never
\* the text of the catch on top of it); no other record changes in that step;
\* a task resolves once, so each slot is written once, and at rendering every
\* slot has been written.
C25_SlotWrittenOnce ==
  /\ [][(pc \in AfterFetch /\ pc' \in AfterFetch) =>
          /\ DOMAIN repos' = DOMAIN repos
          /\ \A j \in DOMAIN repos :
               IF Resolves(j)
                 THEN repos'[j] = Enriched(repos[j], task'[j].text,
                                           Config(srcIdx).maxReadmeLength)
                 ELSE repos'[j] = repos[j]
          /\ Cardinality({j \in DOMAIN task : Resolves(j)}) <= 1]_vars
  /\ [][\A j \in DOMAIN task \cap DOMAIN task' :
          task[j].st = "done" => task'[j].st = "done"]_vars
  /\ [](pc \in {"mkdir", "write"} =>
          /\ DOMAIN task = DOMAIN repos
          /\ \A j \in DOMAIN task : task[j].st = "done")

\* C25 witness: of two records the second has its readme written and the
\* first, untouched, is still being fetched.
C25_Witness ==
  /\ pc = "awaitTasks"
  /\ Len(repos) = 2
  /\ task[2].st = "done"
  /\ task[2].via = "master"
  /\ repos[2].readme # ""
  /\ task[1].st = "fetching"
  /\ repos[1].readme = ""

\* --------------------------------------------- the enrichment under fairness
\* runs with direct options whose limit is valid, in parallel and in sequence,
\* with --no-cache
LiveOptions ==
  {Spread([language |-> "python", timeRange |-> "daily",
           outputPath |-> DefaultOutputPath],
          [cacheDir |-> DefaultCacheDir, cacheExpiry |-> 2, useCache |-> FALSE,
           maxReadmeLength |-> 20000, parallel |-> p, maxParallelRequests |-> k]) :
     p \in BOOLEAN, k \in {1, 2}}
InitLive ==
  /\ callerOptions \in LiveOptions
  /\ configFile = NoConfigFile
  /\ readmeKind = "short"
  /\ maxListing = MaxRepos
  /\ cacheFiles = <<>>
  /\ probe = NoProbe
  /\ Start
\* every request in flight settles, every backoff timer fires, and the
\* continuation of a settled await runs
Fairness ==
  /\ \A i \in 1..(MaxRepos + 1) : WF_vars(i \in DOMAIN task /\ ReadmeResponse(i))
  /\ \A i \in 1..(MaxRepos + 1) : WF_vars(i \in DOMAIN task /\ TimerFires(i))
  /\ WF_vars(StartEnrich)
  /\ WF_vars(Render)
SpecLive == InitLive /\ [][Next]_vars /\ Fairness

\* task i of the enrichment in progress
Awaited(i) == pc = "awaitTasks" /\ i \in DOMAIN task

\* C26: with a valid limit, whatever README requests fail, every queued task
\* is eventually admitted, every task eventually resolves and the enrichment
\* ends, provided requests settle and timers fire; a task that has used up
\* every request of both branches holds no slot, so the tasks behind it are
\* admitted and resolve.
C26_EnrichmentTerminates ==
  /\ \A i \in 1..(MaxRepos + 1) :
       (Awaited(i) /\ task[i].st = "queued") ~> (Awaited(i) /\ task[i].st # "queued")
  /\ \A i \in 1..(MaxRepos + 1) :
       Awaited(i) ~> (Awaited(i) /\ task[i].st = "done")
  /\ (pc = "enrich") ~> (pc = "awaitTasks")
  /\ (pc = "awaitTasks") ~> (pc = "mkdir")
  /\ []((pc = "awaitTasks" /\ Config(srcIdx).parallel) =>
          activeCount = Cardinality({i \in DOMAIN task : InFlight(task[i])}))

\* C26 witness: under a limit of 1 the enrichment of two records has ended:
\* every request of the first record failed, and the second, which waited in
\* the queue behind it, got its README.
C26_Witness ==
  /\ pc = "mkdir"
  /\ Config(1).parallel
  /\ Config(1).maxParallelRequests = 1
  /\ Len(repos) = 2
  /\ repos[1].readme = ReadmeNotAvailable
  /\ repos[2].readme = ReadmeBody(repos[2].name, readmeKind)

\* a request for main-branch (master-branch) README of record i is made in
\* this step
RequestsMain(i) == task'[i].sentMain > task[i].sentMain
RequestsMaster(i) == task'[i].sentMaster > task[i].sentMaster

\* C27: the requests of a record are made one at a time, all main-branch
\* requests before any master-branch request; the first master-branch request
\* is made in the step in which the last of maxRetries + 1 main-branch
\* requests fails; after a request succeeded (the task is done) no request is
\* made for the record.
C27_RequestOrder ==
  /\ [](\A i \in DOMAIN task :
          /\ task[i].sentMaster > 0 => task[i].sentMain = MaxRetries + 1
          /\ task[i].branch = "master" <=> task[i].sentMaster > 0)
  /\ [][\A i \in DOMAIN task \cap DOMAIN task' :
          /\ RequestsMain(i) =>
               /\ task'[i].sentMain = task[i].sentMain + 1
               /\ task[i].sentMaster = 0 /\ task'[i].sentMaster = 0
               /\ task[i].st \in {"queued", "backoff"}
          /\ RequestsMaster(i) =>
               /\ task'[i].sentMaster = task[i].sentMaster + 1
               /\ task'[i].sentMain = task[i].sentMain
               /\ task[i].sentMain = MaxRetries + 1
               /\ IF task[i].sentMaster = 0
                    THEN task[i].st = "fetching" /\ task[i].branch = "main"
                           /\ task[i].retries = 0
                    ELSE task[i].st = "backoff" /\ task[i].branch = "master"
          /\ task[i].st = "done" =>
               /\ task'[i].st = "done"
               /\ ~RequestsMain(i)
               /\ ~RequestsMaster(i)]_vars

\* C27 witness: a record got its README from the master branch at the second
\* request for it, after four failed requests for the main branch.
C27_Witness ==
  \E i \in DOMAIN task :
    /\ task[i].st = "done"
    /\ task[i].via = "master"
    /\ task[i].sentMain = MaxRetries + 1
    /\ task[i].sentMaster = 2
    /\ repos[i].readme = ReadmeBody(repos[i].name, readmeKind)

\* at instant t the cache holds, for the key of source s, an entry as
\* saveToCache writes it that the configured expiry still allows
FreshEntry(s, t) ==
  /\ HasEntry(s)
  /\ WellFormed(EntryOf(s))
  /\ t - EntryOf(s).timestamp <= ConfiguredExpiry(s)
\* at instant t the cache has nothing to give for the key of source s
NoEntry(s, t) ==
  \/ ~HasEntry(s)
  \/ ~EntryOf(s).valid
  \/ t - EntryOf(s).timestamp > ConfiguredExpiry(s)
\* the trending request of the current source is made in this step
RequestsTrending ==
  srcIdx \in DOMAIN ops /\ ops'[srcIdx].trendingFetch > ops[srcIdx].trendingFetch

\* C28: a source that starts with caching enabled and a non-expired entry for
\* its key takes the records of the entry, makes no trending request and
\* leaves the cache files, the entry's capture time included, as they are
\* until it ends; a trending request is made only when caching is disabled or
\* the lookup found no entry, no readable one, or an expired one.
C28_CacheHitNoFetch ==
  /\ [][(pc = "source" /\ Config(srcIdx).useCache /\ FreshEntry(srcIdx, now')) =>
          /\ pc' = "enrich"
          /\ ~RequestsTrending
          /\ repos' = JsonParse(EntryOf(srcIdx).data)
          /\ cacheFiles' = cacheFiles]_vars
  /\ [][(srcIdx \in DOMAIN ops /\ srcIdx' = srcIdx /\ ops'[srcIdx].trendingFetch = 0) =>
          cacheFiles' = cacheFiles]_vars
  /\ [](\A s \in DOMAIN ops :
          (ops[s].trendingFetch = 0 /\ ops[s].cacheSave = 0) \/
          (ops[s].trendingFetch = 1 /\ ops[s].cacheSave <= 1))
  /\ [][RequestsTrending =>
          /\ pc = "source"
          /\ ~Config(srcIdx).useCache \/ NoEntry(srcIdx, now')]_vars

\* C28 witness: a source is DONE that took a listing from an entry exactly as
\* old as the expiry allows, without a trending request and with the entry's
\* capture time as it was.
C28_Witness ==
  \E s \in DOMAIN ops :
    /\ stage[s] = "DONE"
    /\ ops[s].cacheRead = 1
    /\ ops[s].trendingFetch = 0
    /\ HasEntry(s)
    /\ EntryOf(s).data # <<>>
    /\ now = EntryOf(s).timestamp + ConfiguredExpiry(s)

\* the records a cache entry holds
CachedRecords(e) == IF WellFormed(e) THEN JsonParse(e.data) ELSE <<>>
\* the current source took its records from the cache
CacheHit == ops[srcIdx].cacheRead = 1 /\ ops[srcIdx].trendingFetch = 0

\* C29: the cache directory changes only in the step that ends the trending
\* fetch, before the enrichment of the source has started, and never while
\* records are enriched, rendered or written; every record of every cache
\* entry has an empty readme, and so has every record at the start of
\* enrichment; a source that took its records from the cache has, when its
\* enrichment ends, made a README request for each of the cached records.
C29_CachedReadmeEmpty ==
  /\ [][cacheFiles' # cacheFiles =>
          /\ stage[srcIdx] = "FETCHING"
          /\ stage'[srcIdx] = "FETCHING"
          /\ pc' = "enrich"
          /\ task = <<>> /\ task' = <<>>]_vars
  /\ [](\A p \in DOMAIN cacheFiles :
          \A i \in DOMAIN CachedRecords(cacheFiles[p]) :
            CachedRecords(cacheFiles[p])[i].readme = "")
  /\ [](pc = "enrich" => \A i \in DOMAIN repos : repos[i].readme = "")
  /\ [][(pc = "awaitTasks" /\ pc' = "mkdir" /\ CacheHit) =>
          /\ DOMAIN task = DOMAIN CachedRecords(EntryOf(srcIdx))
          /\ \A i \in DOMAIN task : task[i].sentMain >= 1
          /\ \A i \in DOMAIN task :
               repos[i].name = CachedRecords(EntryOf(srcIdx))[i].name]_vars

\* C29 witness: the third source works on the records of the entry the first
\* source saved: the first source is DONE with enriched records, the entry
\* still holds an empty readme, and the README of the cached record has been
\* requested and written again.
C29_Witness ==
  /\ srcIdx = 3
  /\ pc = "awaitTasks"
  /\ CacheHit
  /\ stage[1] = "DONE"
  /\ ops[1].cacheSave = 1
  /\ EntryOf(3) = EntryOf(1)
  /\ Len(CachedRecords(EntryOf(3))) >= 1
  /\ CachedRecords(EntryOf(3))[1].readme = ""
  /\ Len(task) >= 1
  /\ task[1].st = "done"
  /\ task[1].sentMain >= 1
  /\ repos[1].readme # ""

\* source s fails in this step, before its WRITING stage
FailsBeforeWriting(s) ==
  stage'[s] = "FAILED" /\ stage[s] \in {"PENDING", "FETCHING", "ENRICHING", "RENDERING"}
\* the entry main records for source s when its file is written
ResultOf(s) ==
  [source |-> IF MultiMode THEN Loaded.sources[s].name ELSE "",
   outputPath |-> Config(s).outputPath,
   items |-> Len(repos)]

\* C30: the step in which a source fails before its WRITING stage changes no
\* output file and no result; output files and results change only in the
\* step in which the current source becomes DONE, which writes its own file,
\* appends its own result and leaves every other file and every earlier
\* result as they were; so a source that failed before writing has no file
\* and no result from this run, and every source that is DONE keeps its own.
C30_FailureLeavesOutputs ==
  /\ [][\A s \in DOMAIN stage :
          FailsBeforeWriting(s) => (outFiles' = outFiles /\ results' = results)]_vars
  /\ [][(outFiles' # outFiles \/ results' # results) =>
          /\ stage[srcIdx] = "WRITING"
          /\ stage'[srcIdx] = "DONE"
          /\ DOMAIN outFiles' = DOMAIN outFiles \cup {Config(srcIdx).outputPath}
          /\ \A p \in DOMAIN outFiles \ {Config(srcIdx).outputPath} :
               outFiles'[p] = outFiles[p]
          /\ results' = Append(results, ResultOf(srcIdx))]_vars
  /\ [](\A s \in DOMAIN stage :
          /\ (stage[s] = "FAILED" /\ ops[s].outputWrite = 0) =>
               /\ ~Written(s)
               /\ \A j \in 1..Len(results) : results[j].outputPath # Config(s).outputPath
          /\ stage[s] = "DONE" =>
               /\ Written(s)
               /\ \E j \in 1..Len(results) : results[j].outputPath = Config(s).outputPath)

\* C30 witness: the run has returned; the third source failed on the creation
\* of its output directory after its records were enriched, and the first
\* source, DONE before it, has its file and its result.
C30_Witness ==
  /\ pc = "returned"
  /\ NumSources = 3
  /\ stage[3] = "FAILED"
  /\ ops[3].readmeFetch = 1
  /\ Dirname(Config(3).outputPath) \notin dirs
  /\ ~Written(3)
  /\ stage[1] = "DONE"
  /\ Written(1)
  /\ Len(results) >= 1
  /\ results[1].outputPath = Config(1).outputPath
  /\ results[1].items = 1
  /\ Len(outFiles[Config(1).outputPath]) = 1

====
